---------------------------- MODULE Spec2Model ----------------------------
(***************************************************************************)
(* Model of the S1 trading-signal system:                                  *)
(*   - contact_price_calculator.py : tick table, ceil_tick, the contact-   *)
(*     price solver and its verifier;                                      *)
(*   - Real_Time_Monitor_S1.py     : the alert history file, its loader    *)
(*     and check_simplified_alert, run by the monitoring cycle;            *)
(*   - Trading_Signal_System_S1.py : the daily cycle (main, analyze_stock, *)
(*     move_to_history, save_signals) over the signal file.                *)
(*                                                                         *)
(* Prices are whole won.  A quotient the code computes in floating point   *)
(* is carried as a numerator over a fixed denominator, so every comparison *)
(* is the exact one; floating-point rounding is not modelled.              *)
(***************************************************************************)
EXTENDS Integers, Sequences, FiniteSets, TLC

VARIABLES
    \* ---- contact_price_calculator.solve_contact_price ----
    S19,         \* the argument: sum of the 19 closes
    p,           \* the candidate price of the loop (0 before line 47)
    spc,         \* position: "start" (line 44), "loop" (line 50), "done" (returned)
    iterations,  \* loop bodies entered (solve_contact_price_debug's counter)
    \* ---- Real_Time_Monitor_S1 ----
    today,       \* datetime.now() date, as a day number
    alertFile,   \* alert_history.json: NoFile or [date, alerts]
    summary,     \* Summary sheet rows the monitor reads: ticker -> row
    history,     \* per monitor process: the dict returned by load_alert_history
    mpc,         \* per monitor process: "idle" or "loop" (inside the for loop)
    midx,        \* per monitor process: index of the next Summary row
    lastCall,    \* the last check_simplified_alert call: ticker, key, result
    sends,       \* alerts sent under the current epoch: <<ticker, key>> -> count
    armed,       \* per ticker: keys a fired 3% or 5% alert of the tier waits for
    df_rows,     \* per monitor process: df_summary, the rows loaded at line 915
    \* ---- Trading_Signal_System_S1 ----
    sigFile,     \* trading_signals_s1.xlsx: exists, Summary rows, History rows
    chart,       \* per ticker: what fetch_chart_data returns today
    dpc,         \* main's position: "idle" or "loop" (the for loop of line 1062)
    didx,        \* index of the next universe row
    df_universe, \* the universe rows loaded at line 1027
    df_summary,  \* the DataFrame loaded at line 1042 (or the empty one)
    df_history,  \* the DataFrame loaded at line 1043 (or the empty one)
    results,     \* the list of result records (line 1058)
    tickArg,     \* the argument of a tick function, in 24ths
    tickOut,     \* what the function returned
    \* ---- Daily_MarketCap_Tracker ----
    uFile,       \* marketcap_universe.xlsx: the rows and the date of cell H1
    uDay,        \* date.today(), as a day number
    \* ---- trading_day_utils ----
    calIn,       \* the calendar and the start date of a call
    calOut       \* the function called and what it returned

solverVars == <<S19, p, spc, iterations>>
alertVars == <<today, alertFile, summary, history, mpc, midx, lastCall, sends, armed,
               df_rows>>
dailyVars == <<sigFile, chart, dpc, didx, df_universe, df_summary, df_history, results>>
tickVars == <<tickArg, tickOut>>
trackerVars == <<uFile, uDay>>
calendarVars == <<calIn, calOut>>
vars == <<solverVars, alertVars, dailyVars, tickVars, trackerVars, calendarVars>>
\* what the solver, the monitor and the daily run leave alone
nonSolverVars == <<alertVars, dailyVars, tickVars, trackerVars, calendarVars>>
nonAlertVars == <<solverVars, dailyVars, tickVars, trackerVars, calendarVars>>
nonDailyVars == <<solverVars, alertFile, summary, history, mpc, midx, lastCall, sends,
                  armed, df_rows,
                  tickVars, trackerVars, calendarVars>>
nonTickVars == <<solverVars, alertVars, dailyVars, trackerVars, calendarVars>>
nonTrackerVars == <<solverVars, alertVars, dailyVars, tickVars, calendarVars>>
nonCalendarVars == <<solverVars, alertVars, dailyVars, tickVars, trackerVars>>

-----------------------------------------------------------------------------
(* Bounds of the model *)

\* S19 ranges over 24*B - SolverWindow .. 24*B + SolverWindow around each
\* bucket bound B, and over 1 .. SolverWindow
SolverWindow == 30
\* the solver loop is cut after this many iterations
MaxIter == 4

-----------------------------------------------------------------------------
(* contact_price_calculator.py *)

\* get_tick_size(p) for p = n / den
get_tick_size(n, den) ==
    IF n < 2000 * den THEN 1
    ELSE IF n < 5000 * den THEN 5
    ELSE IF n < 20000 * den THEN 10
    ELSE IF n < 50000 * den THEN 50
    ELSE IF n < 200000 * den THEN 100
    ELSE IF n < 500000 * den THEN 500
    ELSE 1000

\* ceil_tick(y) for y = n / den: d is the tick of y itself
ceil_tick(n, den) ==
    LET d == get_tick_size(n, den)
        q == n \div (den * d)
    IN  IF q * d * den = n THEN q * d ELSE (q + 1) * d

\* mutant: the upper limit is written (S19 + d)/24, the factor 25 lost
ContactAccepts_NarrowUpper(s, cand) ==
    LET d == get_tick_size(cand, 1)
    IN  s <= 24 * cand /\ 24 * cand < s + d

\* the acceptance test of line 55, x_star <= p < upper, with x_star = s/24
\* and upper = (s + 25*d)/24
ContactAccepts(s, cand) ==
    LET d == get_tick_size(cand, 1)
    IN  s <= 24 * cand /\ 24 * cand < s + 25 * d

\* verify_contact_price(S19, p): envelope = ((S19 + p)/20) * 0.8
verify_contact_price(s, price) == ceil_tick(8 * (s + price), 200) = price

TickBounds == {2000, 5000, 20000, 50000, 200000, 500000}

SolverInputs ==
    (1 .. SolverWindow)
    \cup UNION {(24 * b - SolverWindow) .. (24 * b + SolverWindow) : b \in TickBounds}
    \cup {1653800, 19995 * 24, 500000 * 24, 87505 * 20 - 96300}

SolverInit ==
    /\ S19 \in SolverInputs
    /\ p = 0
    /\ spc = "start"
    /\ iterations = 0

\* lines 44-47: x_star = S19 / 24.0; p = ceil_tick(x_star)
SolveStart ==
    /\ spc = "start"
    /\ p' = ceil_tick(S19, 24)
    /\ spc' = "loop"
    /\ UNCHANGED <<S19, iterations>>
    /\ UNCHANGED nonSolverVars

\* lines 50-59: one pass of the while loop
SolveIterate ==
    /\ spc = "loop"
    /\ iterations < MaxIter
    /\ iterations' = iterations + 1
    /\ IF ContactAccepts(S19, p)
         THEN /\ spc' = "done"
              /\ p' = p
         ELSE /\ spc' = "loop"
              /\ p' = p + get_tick_size(p, 1)
    /\ UNCHANGED S19
    /\ UNCHANGED nonSolverVars

SolverNext == SolveStart \/ SolveIterate

\* The same loop in float64 on a sum so large that the addition of line 52
\* is absorbed.  S19 holds e for the sum 2^e, p the number of ticks added to
\* the first candidate.  x_star = 2^e / 24 is not a whole number, the first
\* candidate ceil_tick(x_star) is above it and the tick there is 1000
HugeExponents == 68 .. 77
MaxFloatIter == 12
MantissaBits == 53
HugeTick == get_tick_size(500000, 1)

\* half the distance between 2^e and the next float64
HalfUlp(e) == 2 ^ (e - MantissaBits)

\* S19 + 25 * d rounds back to S19: upper is x_star
UpperIsXStar(e, d) == 25 * d < HalfUlp(e)

FloatInit ==
    /\ S19 \in HugeExponents
    /\ p = 0
    /\ spc = "start"
    /\ iterations = 0

\* lines 44-47
FloatStart ==
    /\ spc = "start"
    /\ spc' = "loop"
    /\ UNCHANGED <<S19, p, iterations>>
    /\ UNCHANGED nonSolverVars

\* lines 50-59: x_star <= p holds and p < upper = x_star does not; the loop
\* goes on with the next tick
FloatIterate ==
    /\ spc = "loop"
    /\ iterations < MaxFloatIter
    /\ UpperIsXStar(S19, HugeTick)
    /\ iterations' = iterations + 1
    /\ p' = p + 1
    /\ UNCHANGED <<S19, spc>>
    /\ UNCHANGED nonSolverVars

FloatNext == FloatStart \/ FloatIterate
-----------------------------------------------------------------------------
(* Real_Time_Monitor_S1.py: alert history and check_simplified_alert *)

Tickers == {"005930", "000660"}
\* the order of the rows of the Summary sheet
SummaryOrder == <<"005930", "000660">>
\* monitor processes; the sequential monitor is process 1
MonProcs == {1, 2}

\* the largest day number reached
MaxDay == 2
\* a send count is not counted beyond this
MaxSendsCounted == 2
MaxHistory == 2
MaxPredictIter == 3
SmallSum == 300
TickWindow == 30

Tiers == {1, 2, 3}
Thresholds == {"1%", "3%", "5%"}
\* "BUYk_EXECUTED" is <<k, "EXECUTED">>, "READY_BUYk_1%" is <<k, "1%">>, ...
AlertKeys == Tiers \X ({"EXECUTED"} \cup Thresholds)
NoKey == <<0, "none">>
NoAlerts == [t \in Tickers |-> {}]
\* alert_history.json does not exist
NoFile == [date |-> 0, alerts |-> NoAlerts]
NoCall == [ticker |-> "", key |-> NoKey, sent |-> FALSE, inFile |-> FALSE,
           armed |-> FALSE]

\* the values of the columns 1차매수선, 2차매수선, 3차매수선 of a row
BuyLines == [t \in Tickers |->
                 IF t = "005930" THEN <<1000, 900, 810>> ELSE <<1040, 940, 850>>]
MonitorStages == {"NONE", "BOUGHT_1", "BOUGHT_2", "BOUGHT_3"}
\* the instrument whose stage the daily run changes; the other row stays
RewrittenTicker == "005930"
SummaryRows == [status : MonitorStages, lines : {BuyLines[RewrittenTicker]}]
\* the day's low the price API returns for an instrument: for every buy line
\* b of its row, a low under b, b itself, and b + 1%, + 3%, + 5% (the inclusive
\* ends of the bands), + 6%
LowPrices(lines) ==
    {(b * (100 + q)) \div 100 : b \in {lines[1], lines[2], lines[3]},
                                q \in {-1, 0, 1, 3, 5, 6}}

\* load_alert_history(): the stored history when its date is today's,
\* a fresh one otherwise (no file, or another date)
load_alert_history_NoDateCheck ==
    IF alertFile = NoFile THEN [date |-> today, alerts |-> NoAlerts]
    ELSE alertFile

load_alert_history ==
    IF alertFile = NoFile THEN [date |-> today, alerts |-> NoAlerts]
    ELSE IF alertFile.date # today THEN [date |-> today, alerts |-> NoAlerts]
    ELSE alertFile

\* calculate_low_price_distance(low, target) is num / target percent, with
\* num = (low - target) * 100; for whole prices |distance| < 1e-10 only at 0
LowDistNum(low, target) == (low - target) * 100

\* the tier whose buy line check_simplified_alert looks at (lines 543, 654, 767)
TierOfStatus(status) ==
    CASE status = "NONE" -> 1
      [] status = "BOUGHT_1" -> 2
      [] status = "BOUGHT_2" -> 3
      [] OTHER -> 0

\* the alert_key the if/elif chain of a tier block selects
SelectedKey(status, low, lines) ==
    LET k == TierOfStatus(status)
    IN  IF k = 0 THEN NoKey
        ELSE LET target == lines[k]
                 num == LowDistNum(low, target)
             IN  IF num <= 0 THEN <<k, "EXECUTED">>
                 ELSE IF num <= 1 * target THEN <<k, "1%">>
                 ELSE IF num <= 3 * target THEN <<k, "3%">>
                 ELSE IF num <= 5 * target THEN <<k, "5%">>
                 ELSE NoKey

\* mutant: the 3% and 5% branches test their own flag only
AlertAllowed_OwnFlagOnly(key, ticker_alerts) == key \notin ticker_alerts

\* mutant: no flag is tested at all
AlertAllowed_NoFlag(key, ticker_alerts) == TRUE

\* mutant: a closer alert is held back once a farther one has fired
AlertAllowed_FartherBlocks(key, ticker_alerts) ==
    /\ key \notin ticker_alerts
    /\ key[2] = "3%" => <<key[1], "1%">> \notin ticker_alerts
    /\ key[2] = "5%" => /\ <<key[1], "1%">> \notin ticker_alerts
                        /\ <<key[1], "3%">> \notin ticker_alerts
    /\ key[2] \in {"1%", "EXECUTED"} => /\ <<key[1], "5%">> \notin ticker_alerts
                                        /\ <<key[1], "3%">> \notin ticker_alerts

\* the test guarding send_realtime_alert in the selected branch
\* (lines 552, 581, 606, 631-633 and their copies for tiers 2 and 3)
AlertAllowed(key, ticker_alerts) ==
    /\ key \notin ticker_alerts
    /\ key[2] = "3%" => <<key[1], "1%">> \notin ticker_alerts
    /\ key[2] = "5%" => /\ <<key[1], "1%">> \notin ticker_alerts
                        /\ <<key[1], "3%">> \notin ticker_alerts

\* check_simplified_alert's return value
AlertSent(tk, row, low, hist) ==
    LET key == SelectedKey(row.status, low, row.lines)
    IN  key # NoKey /\ AlertAllowed(key, hist.alerts[tk])

\* mutant: the key is marked for every instrument
MarkFired_EveryTicker(tk, key, hist) ==
    [hist EXCEPT !.alerts = [t \in Tickers |-> @[t] \cup {key}]]

\* history after check_simplified_alert: ticker_alerts[alert_key] = True
MarkFired(tk, key, hist) ==
    [hist EXCEPT !.alerts[tk] = @ \cup {key}]

AlertInit ==
    /\ today = 1
    /\ alertFile = NoFile
    /\ summary = [t \in Tickers |->
                    [status |-> IF t = RewrittenTicker THEN "NONE" ELSE "BOUGHT_1",
                     lines |-> BuyLines[t]]]
    /\ history = [m \in MonProcs |-> [date |-> 0, alerts |-> NoAlerts]]
    /\ mpc = [m \in MonProcs |-> "idle"]
    /\ midx = [m \in MonProcs |-> 0]
    /\ lastCall = NoCall
    /\ sends = [k \in Tickers \X AlertKeys |-> 0]
    /\ armed = [t \in Tickers |-> {}]
    /\ df_rows = [m \in MonProcs |-> summary]

\* run_simplified_monitoring_cycle, lines 915-926: the Summary rows and the
\* alert history are loaded
MonLoad(m) ==
    /\ mpc[m] = "idle"
    /\ LET h == load_alert_history
           fresh == alertFile = NoFile \/ alertFile.date # today
       IN  /\ history' = [history EXCEPT ![m] = h]
           /\ sends' = IF fresh THEN [k \in Tickers \X AlertKeys |-> 0] ELSE sends
           /\ armed' = IF fresh THEN [t \in Tickers |-> {}] ELSE armed
    /\ df_rows' = [df_rows EXCEPT ![m] = summary]
    /\ mpc' = [mpc EXCEPT ![m] = "loop"]
    /\ midx' = [midx EXCEPT ![m] = 1]
    /\ lastCall' = NoCall
    /\ UNCHANGED <<today, alertFile, summary>>
    /\ UNCHANGED nonAlertVars

\* lines 928-986 for one row: the price is read and check_simplified_alert
\* called; a send marks the key and saves the history (save_alert_history)
MonCheck(m) ==
    /\ mpc[m] = "loop"
    /\ midx[m] <= Len(SummaryOrder)
    /\ \E low \in LowPrices(df_rows[m][SummaryOrder[midx[m]]].lines) :
         LET tk == SummaryOrder[midx[m]]
             row == df_rows[m][tk]
             key == SelectedKey(row.status, low, row.lines)
             sent == AlertSent(tk, row, low, history[m])
             h2 == IF sent THEN MarkFired(tk, key, history[m]) ELSE history[m]
         IN  /\ history' = [history EXCEPT ![m] = h2]
             /\ alertFile' = IF sent THEN h2 ELSE alertFile
             /\ lastCall' = [ticker |-> tk, key |-> key, sent |-> sent,
                             inFile |-> /\ key # NoKey
                                        /\ alertFile # NoFile
                                        /\ key \in alertFile.alerts[tk],
                             armed |-> key \in armed[tk]]
             /\ sends' = IF sent
                           THEN [sends EXCEPT ![<<tk, key>>] =
                                    IF @ < MaxSendsCounted THEN @ + 1 ELSE @]
                           ELSE sends
             /\ armed' = [armed EXCEPT ![tk] =
                            IF sent /\ key[2] \in {"3%", "5%"}
                              THEN @ \cup {<<key[1], "1%">>, <<key[1], "EXECUTED">>}
                              ELSE @ \ {key}]
    /\ midx' = [midx EXCEPT ![m] = @ + 1]
    /\ UNCHANGED <<today, summary, mpc, df_rows>>
    /\ UNCHANGED nonAlertVars

\* lines 961-964: no price data for the row, the row is skipped
MonSkip(m) ==
    /\ mpc[m] = "loop"
    /\ midx[m] <= Len(SummaryOrder)
    /\ midx' = [midx EXCEPT ![m] = @ + 1]
    /\ UNCHANGED <<today, alertFile, summary, history, mpc, lastCall, sends, armed,
                   df_rows>>
    /\ UNCHANGED nonAlertVars

\* lines 988-995: the loop is over
MonEnd(m) ==
    /\ mpc[m] = "loop"
    /\ midx[m] > Len(SummaryOrder)
    /\ mpc' = [mpc EXCEPT ![m] = "idle"]
    /\ lastCall' = NoCall
    /\ UNCHANGED <<today, alertFile, summary, history, midx, sends, armed, df_rows>>
    /\ UNCHANGED nonAlertVars

\* the calendar date changes (datetime.now() of lines 403 and 924); the daily
\* run, outside monitoring hours, has saved a new Summary sheet
NewDay ==
    /\ today < MaxDay
    /\ today' = today + 1
    /\ \E r \in SummaryRows : summary' = [summary EXCEPT ![RewrittenTicker] = r]
    /\ UNCHANGED <<alertFile, history, mpc, midx, lastCall, sends, armed, df_rows>>
    /\ UNCHANGED nonAlertVars

AlertNext ==
    \/ MonLoad(1)
    \/ MonCheck(1)
    \/ MonSkip(1)
    \/ MonEnd(1)
    \/ NewDay

-----------------------------------------------------------------------------
(* Trading_Signal_System_S1.py: the daily run *)

\* Python's None, a NaN cell value, and a column the sheet does not have
None == -1
NaN == -2
Dropped == -3

\* lines 54 and 57, and the quantity of one tranche (lines 577, 587, 597)
BUY_LEVEL_GAP == 10
SELL_LEVELS == <<3, 5, 7>>
TrancheQty == 100

\* the statuses of BuyStatus that analyze_stock assigns (lines 573-650)
HeldStatuses == {"BOUGHT_1", "BOUGHT_2", "BOUGHT_3"}

\* get_tick_unit(price), price = n/den
get_tick_unit(n, den) ==
    IF n < 2000 * den THEN 1
    ELSE IF n < 5000 * den THEN 5
    ELSE IF n < 20000 * den THEN 10
    ELSE IF n < 50000 * den THEN 50
    ELSE IF n < 200000 * den THEN 100
    ELSE IF n < 500000 * den THEN 500
    ELSE 1000

\* get_nearest_tick_price(price), price = n/den: always the tick above, also
\* when the price is on a tick
get_nearest_tick_price(n, den) ==
    LET tick_unit == get_tick_unit(n, den) IN
    IF n % (den * tick_unit) = 0
    THEN (n \div den) + tick_unit
    ELSE (n \div (den * tick_unit)) * tick_unit + tick_unit

\* ceil_tick that moves one tick up also from a price on a tick
signal_ceil_tick_AlwaysUp(n, den) ==
    LET delta == get_tick_unit(n, den) IN
    (n \div (den * delta)) * delta + delta

\* ceil_tick of the signal system (line 157): math.ceil(price / delta) * delta
signal_ceil_tick(n, den) ==
    LET delta == get_tick_unit(n, den) IN
    ((n + den * delta - 1) \div (den * delta)) * delta

\* the while loop of predict_next_day_buy_price (lines 147-154); fuel counts
\* the iterations the model follows
RECURSIVE predict_loop(_, _, _)
predict_loop(S19_next, cand, fuel) ==
    LET delta == get_tick_unit(cand, 1) IN
    IF 24 * cand < S19_next + 25 * delta THEN cand
    ELSE IF fuel = 0 THEN None
    ELSE predict_loop(S19_next, cand + delta, fuel - 1)

predict_next_day_buy_price(S19_next) ==
    predict_loop(S19_next, signal_ceil_tick(S19_next, 24), MaxPredictIter)

calculate_buy_line_1(S19_next) ==
    IF S19_next <= 0 THEN None ELSE predict_next_day_buy_price(S19_next)

calculate_buy_line_2(buy1) ==
    IF buy1 = None THEN None
    ELSE get_nearest_tick_price(buy1 * (100 - BUY_LEVEL_GAP), 100)

calculate_buy_line_3(buy2) ==
    IF buy2 = None THEN None
    ELSE get_nearest_tick_price(buy2 * (100 - BUY_LEVEL_GAP), 100)

\* check_buy_signal with low < buy_line
check_buy_signal_Strict(low, buy_line) ==
    IF low = None \/ buy_line = None THEN FALSE ELSE low < buy_line

check_buy_signal(low, buy_line) ==
    IF low = None \/ buy_line = None THEN FALSE ELSE low <= buy_line

\* Python's x >= y on floats: False when either side is NaN
PyGE(x, y) == x # NaN /\ y # NaN /\ x >= y

\* Python's max(a, b): b only if b > a, so a NaN first argument stays
PyMax(a, b) == IF a # NaN /\ b # NaN /\ b > a THEN b ELSE a

Abs(x) == IF x < 0 THEN -x ELSE x

\* the three sell lines all computed with SELL_LEVELS[0]
SellLine_FirstLevel(avg_price, k) == avg_price * (100 + SELL_LEVELS[1])

\* a sell line avg_price * (1 + SELL_LEVELS[k] / 100), in hundredths
SellLine(avg_price, k) == avg_price * (100 + SELL_LEVELS[k])

\* check_sell_retouch; sell_line and the high-water mark in hundredths
check_sell_retouch(high, close, sell_line, max_high, avg_buy_price) ==
    IF max_high = None \/ high = None \/ close = None \/ sell_line = None
       \/ avg_buy_price = None
    THEN FALSE
    ELSE /\ PyGE(IF max_high = NaN THEN NaN ELSE max_high * 100, sell_line)
         /\ Abs(close - avg_buy_price) * 100 < avg_buy_price

\* the rows of marketcap_universe.xlsx, in sheet order
UniverseOrder == <<"005930", "000660">>

\* ---- chart data ----
\* what fetch_chart_data returned: the number of rows, the sum of the last 20
\* closes, the close 20 rows back, and the latest candle
NoData == [len |-> 0, s20 |-> 0, c20 |-> 0, low |-> 0, high |-> 0, close |-> 0]
ChartAt(sum20, old, l, h, c) ==
    [len |-> 60, s20 |-> sum20, c20 |-> old, low |-> l, high |-> h, close |-> c]
Candle(l, h, c) == ChartAt(25000, 1000, l, h, c)
ShortChart == [Candle(1001, 1020, 1010) EXCEPT !.len = 19]
\* a chart of signed prices (safe_float, lines 273-277, lets them through)
SignedChart == ChartAt(-50125, -2005, -2040, -2006, -2020)

\* the charts a day can bring, per instrument
ChartsOf(t) ==
    IF t = "005930"
    THEN {NoData, ShortChart,
          Candle(1001, 1020, 1010), Candle(1000, 1040, 1005),
          Candle(990, 1060, 1010), Candle(995, 1010, 1000),
          Candle(990, 1075, 1070), Candle(900, 920, 905),
          Candle(800, 820, 815)}
    ELSE {NoData, SignedChart, ChartAt(50125, 2005, 2006, 2040, 2020),
          ChartAt(50125, 2005, 2005, 2040, 2010)}

\* ---- rows of the Summary sheet ----
NoTranche == <<None, None, None>>
NoRow == [status |-> "ABSENT"]

\* the locals of analyze_stock for an instrument without a row (lines 540-553)
NewRow(t) ==
    [ticker |-> t, status |-> "NONE", avg |-> None, total_qty |-> 0,
     total_amount |-> 0, dates |-> NoTranche, prices |-> NoTranche,
     qtys |-> NoTranche, max_high |-> None, sells |-> NoTranche, close |-> None,
     evalDay |-> 0, fills |-> <<>>, gmax |-> None, trigger |-> 0,
     buy_next |-> NoTranche, alert |-> "UNSET"]

\* to_excel / read_excel of one cell: None and NaN are written as an empty
\* cell, an empty cell is read as NaN
SaveCell(v) == IF v = NaN THEN None ELSE v
LoadCell(v) == IF v = None THEN NaN ELSE v
SaveCells(s) == [i \in DOMAIN s |-> SaveCell(s[i])]
LoadCells(s) == [i \in DOMAIN s |-> LoadCell(s[i])]

\* save_signals lines 891-893 and 896-898: the written row
SaveRow(r) ==
    [r EXCEPT !.avg = SaveCell(@), !.dates = SaveCells(@), !.prices = SaveCells(@),
              !.max_high = SaveCell(@), !.sells = SaveCells(@),
              !.qtys = <<Dropped, Dropped, Dropped>>,
              !.total_qty = Dropped, !.total_amount = Dropped]

\* read_excel of one row (lines 1042-1043)
LoadRow(r) ==
    IF r = NoRow THEN NoRow
    ELSE [r EXCEPT !.avg = LoadCell(@), !.dates = LoadCells(@),
                   !.prices = LoadCells(@), !.max_high = LoadCell(@),
                   !.sells = LoadCells(@)]

\* lines 556-570: the locals read from the existing row.  The sheet has the
\* columns "1차매수가(당일)", the row is asked for "1차매수가": None
ExistingRow(row) ==
    [row EXCEPT !.total_qty = IF @ = Dropped THEN 0 ELSE @,
                !.total_amount = IF @ = Dropped THEN 0 ELSE @,
                !.prices = NoTranche,
                !.qtys = [i \in 1..3 |-> IF @[i] = Dropped THEN None ELSE @[i]]]

\* lines 574-580: the first tranche
FillFirst(e, buy, date) ==
    [e EXCEPT !.status = "BOUGHT_1", !.dates[1] = date, !.prices[1] = buy[1],
              !.qtys[1] = TrancheQty, !.total_qty = TrancheQty,
              !.total_amount = buy[1] * TrancheQty, !.avg = buy[1],
              !.fills = Append(@, buy[1])]

\* lines 584-590 (k = 2) and 594-600 (k = 3): a later tranche.  total_amount
\* is a multiple of total_qty in every state the run reaches, the division is
\* exact
FillNext(e, k, buy, date) ==
    LET qty == e.total_qty + TrancheQty
        amount == e.total_amount + buy[k] * TrancheQty
    IN  [e EXCEPT !.status = IF k = 2 THEN "BOUGHT_2" ELSE "BOUGHT_3",
                  !.dates[k] = date, !.prices[k] = buy[k], !.qtys[k] = TrancheQty,
                  !.total_qty = qty, !.total_amount = amount,
                  !.avg = amount \div qty,
                  !.fills = Append(@, buy[k])]

\* the buy step with three independent ifs instead of the if / elif chain
BuyStep_FallThrough(e, low, buy, date) ==
    LET a == IF e.status = "NONE" /\ check_buy_signal(low, buy[1])
             THEN FillFirst(e, buy, date) ELSE e
        b == IF a.status = "BOUGHT_1" /\ check_buy_signal(low, buy[2])
             THEN FillNext(a, 2, buy, date) ELSE a
    IN  IF b.status = "BOUGHT_2" /\ check_buy_signal(low, buy[3])
        THEN FillNext(b, 3, buy, date) ELSE b

\* the buy step that opens a new position on a sold row
BuyStep_Reenter(e, low, buy, date) ==
    IF e.status \in {"NONE", "SOLD"} /\ check_buy_signal(low, buy[1])
    THEN FillFirst(e, buy, date)
    ELSE IF e.status = "BOUGHT_1" /\ check_buy_signal(low, buy[2])
    THEN FillNext(e, 2, buy, date)
    ELSE IF e.status = "BOUGHT_2" /\ check_buy_signal(low, buy[3])
    THEN FillNext(e, 3, buy, date)
    ELSE e

\* lines 573-601: the buy step
BuyStep(e, low, buy, date) ==
    IF e.status = "NONE" /\ check_buy_signal(low, buy[1])
    THEN FillFirst(e, buy, date)
    ELSE IF e.status = "BOUGHT_1" /\ check_buy_signal(low, buy[2])
    THEN FillNext(e, 2, buy, date)
    ELSE IF e.status = "BOUGHT_2" /\ check_buy_signal(low, buy[3])
    THEN FillNext(e, 3, buy, date)
    ELSE e

\* Python truthiness of a cell value: None and 0 are false, NaN is true
Truthy(v) == v # None /\ v # 0

\* lines 611-650: sell lines, high-water mark and the exit checks.  gmax is
\* the highest high of the evaluations since the first tranche, trigger the
\* sell tier of the branch taken at lines 638, 643, 648 (history variables)
SellStep(r, high, close) ==
    IF r.status \in HeldStatuses /\ Truthy(r.avg)
    THEN LET sell == IF r.avg # NaN /\ r.avg > 0
                     THEN [k \in 1..3 |-> SellLine(r.avg, k)]
                     ELSE <<0, 0, 0>>
             max_high_line == IF r.max_high = None THEN high
                              ELSE PyMax(r.max_high, high)
             taken == IF PyGE(high * 100, sell[3]) THEN 3
                      ELSE IF check_sell_retouch(high, close, sell[2],
                                                 max_high_line, r.avg) THEN 2
                      ELSE IF check_sell_retouch(high, close, sell[1],
                                                 max_high_line, r.avg) THEN 1
                      ELSE 0
         IN  [r EXCEPT !.sells = sell, !.max_high = max_high_line,
                       !.gmax = IF @ = None \/ high > @ THEN high ELSE @,
                       !.trigger = taken,
                       !.status = IF taken # 0 THEN "SOLD" ELSE @]
    ELSE r

\* an empty pd.DataFrame() (lines 1037-1038) and a sheet with its rows
EmptyFrame == [cols |-> FALSE, rows |-> [t \in Tickers |-> NoRow]]

\* lines 491-493: S20_today is the sum of the last 20 closes (today's
\* included), Close_D_20 is iloc[-20], the oldest of them
S19_today(ch) == ch.s20 - ch.c20

\* lines 504-505: Close_D_19 is iloc[-20] again
S19_next(ch) == ch.s20 - ch.c20

\* the three buy lines of the day (lines 496-498)
BuyLinesToday(ch) ==
    LET buy1_today == calculate_buy_line_1(S19_today(ch))
        buy2_today == calculate_buy_line_2(buy1_today)
    IN  <<buy1_today, buy2_today, calculate_buy_line_3(buy2_today)>>

\* the three buy lines published for the next session (lines 508-510)
BuyLinesNext(ch) ==
    LET buy1_next == calculate_buy_line_1(S19_next(ch))
        buy2_next == calculate_buy_line_2(buy1_next)
    IN  <<buy1_next, buy2_next, calculate_buy_line_3(buy2_next)>>

\* line 536 and lines 538-570: the locals analyze_stock starts from
Existing(t, dfs) ==
    IF dfs.cols /\ dfs.rows[t] # NoRow
    THEN [ExistingRow(dfs.rows[t]) EXCEPT !.sells = NoTranche]
    ELSE NewRow(t)

DEFAULT_ALERT_THRESHOLD == 10
SELL_ALERT_THRESHOLD == 3

\* calculate_distance_pct (lines 392-404): (current - target) / target * 100
\* as the fraction <<numerator, denominator>>; the None of line 395 is NoDist.
\* current and target are in the same unit.  The clamp of line 401 changes
\* nothing in exact arithmetic
NoDist == <<0, 0>>
calculate_distance_pct(current, target) ==
    IF current = None \/ target = None \/ target = 0 THEN NoDist
    ELSE <<(current - target) * 100, target>>

\* the tests on a distance: "d is not None and 0 < d <= k" (lines 720, 731,
\* 744) and "d is not None and abs(d) <= k" (lines 728, 739, 741, 752-756)
DistInBand(d, k) ==
    /\ d # NoDist
    /\ (d[1] > 0 /\ d[2] > 0) \/ (d[1] < 0 /\ d[2] < 0)
    /\ Abs(d[1]) <= k * Abs(d[2])
DistNear(d, k) ==
    /\ d # NoDist
    /\ Abs(d[1]) <= k * Abs(d[2])

\* determine_alert_status with the buy tier tested before the sell lines
determine_alert_status_BuyFirst(buy_status, dist_buy, dist_sell, threshold) ==
    IF buy_status = "SOLD" THEN "COMPLETED"
    ELSE IF buy_status = "NONE"
    THEN IF DistInBand(dist_buy[1], threshold) THEN "READY_BUY1" ELSE "WATCHING"
    ELSE IF buy_status = "BOUGHT_1"
    THEN IF DistInBand(dist_buy[2], threshold) THEN "READY_BUY2"
         ELSE IF DistNear(dist_sell[1], SELL_ALERT_THRESHOLD) THEN "READY_SELL1"
         ELSE "WAITING"
    ELSE IF buy_status = "BOUGHT_2"
    THEN IF DistInBand(dist_buy[3], threshold) THEN "READY_BUY3"
         ELSE IF DistNear(dist_sell[2], SELL_ALERT_THRESHOLD) THEN "READY_SELL2"
         ELSE IF DistNear(dist_sell[1], SELL_ALERT_THRESHOLD) THEN "READY_SELL1"
         ELSE "WAITING"
    ELSE IF DistNear(dist_sell[3], SELL_ALERT_THRESHOLD) THEN "READY_SELL3"
         ELSE IF DistNear(dist_sell[2], SELL_ALERT_THRESHOLD) THEN "READY_SELL2"
         ELSE IF DistNear(dist_sell[1], SELL_ALERT_THRESHOLD) THEN "READY_SELL1"
         ELSE "WAITING"

\* determine_alert_status with "0 <= dist_buy1" at line 720
determine_alert_status_ZeroIsReady(buy_status, dist_buy, dist_sell, threshold) ==
    IF buy_status = "NONE" /\ dist_buy[1] # NoDist /\ dist_buy[1][1] = 0
    THEN "READY_BUY1"
    ELSE determine_alert_status_BuyFirst(buy_status, dist_buy, dist_sell, threshold)

\* determine_alert_status that answers by the stage before the exit checks
determine_alert_status_Held(buy_status, dist_buy, dist_sell, threshold) ==
    IF buy_status = "SOLD" THEN "WAITING"
    ELSE determine_alert_status_BuyFirst(buy_status, dist_buy, dist_sell, threshold)

\* determine_alert_status (lines 704-761); the message is left out
determine_alert_status(buy_status, dist_buy, dist_sell, threshold) ==
    IF buy_status = "SOLD" THEN "COMPLETED"
    ELSE IF buy_status = "NONE"
    THEN IF DistInBand(dist_buy[1], threshold) THEN "READY_BUY1" ELSE "WATCHING"
    ELSE IF buy_status = "BOUGHT_1"
    THEN IF DistNear(dist_sell[1], SELL_ALERT_THRESHOLD) THEN "READY_SELL1"
         ELSE IF DistInBand(dist_buy[2], threshold) THEN "READY_BUY2"
         ELSE "WAITING"
    ELSE IF buy_status = "BOUGHT_2"
    THEN IF DistNear(dist_sell[2], SELL_ALERT_THRESHOLD) THEN "READY_SELL2"
         ELSE IF DistNear(dist_sell[1], SELL_ALERT_THRESHOLD) THEN "READY_SELL1"
         ELSE IF DistInBand(dist_buy[3], threshold) THEN "READY_BUY3"
         ELSE "WAITING"
    ELSE IF buy_status = "BOUGHT_3"
    THEN IF DistNear(dist_sell[3], SELL_ALERT_THRESHOLD) THEN "READY_SELL3"
         ELSE IF DistNear(dist_sell[2], SELL_ALERT_THRESHOLD) THEN "READY_SELL2"
         ELSE IF DistNear(dist_sell[1], SELL_ALERT_THRESHOLD) THEN "READY_SELL1"
         ELSE "WAITING"
    ELSE "WATCHING"

\* lines 513-515 and 625-627: the distances of the close to the next-session
\* buy lines and to the sell lines (the sell lines are in hundredths)
DistBuy(close, buy) == [k \in 1..3 |-> calculate_distance_pct(close, buy[k])]
DistSell(close, sell) ==
    [k \in 1..3 |-> calculate_distance_pct(close * 100, sell[k])]

\* analyze_stock with the exit checks before the buy step
analyze_stock_ExitFirst(t, ch, dfs, date) ==
    IF ch.len = 0 THEN NoRow
    ELSE IF ch.len < 20 THEN NoRow
    ELSE LET checked == SellStep(Existing(t, dfs), ch.high, ch.close)
             final == BuyStep(checked, ch.low, BuyLinesToday(ch), date)
             buy_next == BuyLinesNext(ch)
         IN  [final EXCEPT !.close = ch.close, !.evalDay = date,
                           !.buy_next = buy_next,
                           !.alert = determine_alert_status(final.status,
                                        DistBuy(ch.close, buy_next),
                                        DistSell(ch.close, final.sells),
                                        DEFAULT_ALERT_THRESHOLD)]

\* analyze_stock: the result record, or NoRow for the None of lines 459, 463
analyze_stock(t, ch, dfs, date) ==
    IF ch.len = 0 THEN NoRow
    ELSE IF ch.len < 20 THEN NoRow
    ELSE LET bought == BuyStep(Existing(t, dfs), ch.low, BuyLinesToday(ch), date)
             final == SellStep(bought, ch.high, ch.close)
             buy_next == BuyLinesNext(ch)
         IN  [final EXCEPT !.close = ch.close, !.evalDay = date,
                           !.buy_next = buy_next,
                           !.alert = determine_alert_status(final.status,
                                        DistBuy(ch.close, buy_next),
                                        DistSell(ch.close, final.sells),
                                        DEFAULT_ALERT_THRESHOLD)]

\* lines 929-950: the History row of a sold row.  The reasons are, in the
\* order of lines 935, 937, 939, 941
HistoryRow(row, now) ==
    LET mh == IF row.max_high = NaN THEN NaN ELSE row.max_high * 100
        reached(k) == Truthy(row.max_high) /\ Truthy(row.sells[k])
                      /\ PyGE(mh, row.sells[k])
    IN  [ticker |-> row.ticker, exit_date |-> now, trigger |-> row.trigger,
         reason |-> IF reached(3) THEN "+7%"
                    ELSE IF reached(2) THEN "+5% retouch"
                    ELSE IF reached(1) THEN "+3% retouch"
                    ELSE "sold",
         profit |-> IF Truthy(row.avg) /\ Truthy(row.close)
                    THEN <<(row.close - row.avg) * 100, row.avg>>
                    ELSE <<0, 1>>]

\* move_to_history: the sold rows leave Summary and are appended to History
RECURSIVE AppendSold(_, _, _, _)
AppendSold(order, rows, hist, now) ==
    IF order = <<>> THEN hist
    ELSE LET r == rows[Head(order)]
             h == IF r # NoRow /\ r.status = "SOLD"
                  THEN Append(hist, HistoryRow(r, now)) ELSE hist
         IN  AppendSold(Tail(order), rows, h, now)

\* move_to_history without line 956: the sold rows stay in Summary
move_to_history_KeepsSold(dfs, dfh, now) ==
    [summary |-> dfs,
     history |-> AppendSold(UniverseOrder, dfs.rows, dfh, now)]

move_to_history(dfs, dfh, now) ==
    [summary |-> [dfs EXCEPT !.rows = [t \in Tickers |->
                     IF dfs.rows[t] # NoRow /\ dfs.rows[t].status = "SOLD"
                     THEN NoRow ELSE dfs.rows[t]]],
     history |-> AppendSold(UniverseOrder, dfs.rows, dfh, now)]

\* pd.DataFrame(results) (line 1090)
FrameOf(res) ==
    [cols |-> TRUE,
     rows |-> [t \in Tickers |->
                 IF \E i \in 1..Len(res) : res[i].ticker = t
                 THEN res[CHOOSE i \in 1..Len(res) : res[i].ticker = t]
                 ELSE NoRow]]

\* the signal file before the first save
NoSignalFile ==
    [exists |-> FALSE, summary |-> [t \in Tickers |-> NoRow], history |-> <<>>]

DayCharts == [Tickers -> UNION {ChartsOf(t) : t \in Tickers}]

DailyIdle ==
    /\ dpc = "idle"
    /\ didx = 0
    /\ df_universe = <<>>
    /\ df_summary = EmptyFrame
    /\ df_history = <<>>
    /\ results = <<>>

DailyInit ==
    /\ sigFile = NoSignalFile
    /\ chart \in {c \in DayCharts : \A t \in Tickers : c[t] \in ChartsOf(t)}
    /\ DailyIdle

\* main lines 1027-1051 and 1058: the universe and the two sheets are read
DailyLoad ==
    /\ dpc = "idle"
    /\ Len(sigFile.history) < MaxHistory
    /\ \E U \in SUBSET Tickers :
         df_universe' = SelectSeq(UniverseOrder, LAMBDA t : t \in U)
    /\ df_summary' = IF sigFile.exists
                     THEN [cols |-> TRUE,
                           rows |-> [t \in Tickers |-> LoadRow(sigFile.summary[t])]]
                     ELSE EmptyFrame
    /\ df_history' = sigFile.history
    /\ results' = <<>>
    /\ didx' = 1
    /\ dpc' = "loop"
    /\ UNCHANGED <<sigFile, chart, today>>
    /\ UNCHANGED nonDailyVars

\* lines 1042-1051: read_excel raises on the Summary sheet (both frames stay
\* empty) or on the History sheet (df_summary is already assigned)
DailyLoadFails ==
    /\ dpc = "idle"
    /\ sigFile.exists
    /\ Len(sigFile.history) < MaxHistory
    /\ \E U \in SUBSET Tickers :
         df_universe' = SelectSeq(UniverseOrder, LAMBDA t : t \in U)
    /\ \E sheet \in {"Summary", "History"} :
         df_summary' = IF sheet = "Summary" THEN EmptyFrame
                       ELSE [cols |-> TRUE,
                             rows |-> [t \in Tickers |-> LoadRow(sigFile.summary[t])]]
    /\ df_history' = <<>>
    /\ results' = <<>>
    /\ didx' = 1
    /\ dpc' = "loop"
    /\ UNCHANGED <<sigFile, chart, today>>
    /\ UNCHANGED nonDailyVars

\* lines 527-533: the log lines format the buy lines with "{...:,.0f}"; a
\* 19-close sum that is not positive makes them None (line 347) and the
\* format raises TypeError
Raises(ch) == ch.len >= 20 /\ (S19_today(ch) <= 0 \/ S19_next(ch) <= 0)

\* lines 1062-1086: one universe row
DailyAnalyze ==
    /\ dpc = "loop"
    /\ didx <= Len(df_universe)
    /\ ~Raises(chart[df_universe[didx]])
    /\ LET ticker == df_universe[didx]
           result == analyze_stock(ticker, chart[ticker], df_summary, today)
       IN  results' = IF result # NoRow THEN Append(results, result) ELSE results
    /\ didx' = didx + 1
    /\ UNCHANGED <<sigFile, chart, today, dpc, df_universe, df_summary, df_history>>
    /\ UNCHANGED nonDailyVars

\* line 1073 raises: no try in the loop, the exception is caught at line
\* 1122 and the process ends with sys.exit(1); nothing is saved
DailyRaise ==
    /\ dpc = "loop"
    /\ didx <= Len(df_universe)
    /\ Raises(chart[df_universe[didx]])
    /\ dpc' = "idle"
    /\ didx' = 0
    /\ df_universe' = <<>>
    /\ df_summary' = EmptyFrame
    /\ df_history' = <<>>
    /\ results' = <<>>
    /\ UNCHANGED <<sigFile, chart, today>>
    /\ UNCHANGED nonDailyVars

\* the frame line 1093 hands to move_to_history
SummaryFrame == IF results # <<>> THEN FrameOf(results) ELSE df_summary

\* lines 1089-1096: Summary is replaced by the results, sold rows move to
\* History, both sheets are saved; the process ends
DailyFinish ==
    /\ dpc = "loop"
    /\ didx > Len(df_universe)
    /\ SummaryFrame.cols
    /\ LET moved == move_to_history(SummaryFrame, df_history, today)
       IN  sigFile' = [exists |-> TRUE,
                       summary |-> [t \in Tickers |->
                                      IF moved.summary.rows[t] = NoRow THEN NoRow
                                      ELSE SaveRow(moved.summary.rows[t])],
                       history |-> moved.history]
    /\ dpc' = "idle"
    /\ didx' = 0
    /\ df_universe' = <<>>
    /\ df_summary' = EmptyFrame
    /\ df_history' = <<>>
    /\ results' = <<>>
    /\ UNCHANGED <<chart, today>>
    /\ UNCHANGED nonDailyVars

\* line 915 on an empty pd.DataFrame(): KeyError, caught at line 1122,
\* sys.exit(1); nothing is saved
DailyAbort ==
    /\ dpc = "loop"
    /\ didx > Len(df_universe)
    /\ ~SummaryFrame.cols
    /\ dpc' = "idle"
    /\ didx' = 0
    /\ df_universe' = <<>>
    /\ df_summary' = EmptyFrame
    /\ df_history' = <<>>
    /\ results' = <<>>
    /\ UNCHANGED <<sigFile, chart, today>>
    /\ UNCHANGED nonDailyVars

\* the next trading day brings new charts
DayPasses ==
    /\ dpc = "idle"
    /\ today < MaxDay
    /\ today' = today + 1
    /\ chart' \in {c \in DayCharts : \A t \in Tickers : c[t] \in ChartsOf(t)}
    /\ UNCHANGED <<sigFile, dpc, didx, df_universe, df_summary, df_history, results>>
    /\ UNCHANGED nonDailyVars

\* the columns of the Summary sheet save_signals writes that the monitor
\* asks for: 티커, 종목명, 매수상태 and the three 1차매수선(익일),
\* 2차매수선(익일), 3차매수선(익일) of lines 673, 678, 683
WrittenColumns ==
    {"ticker", "name", "status", "buy1(next)", "buy2(next)", "buy3(next)"}

\* required_columns of Real_Time_Monitor_S1.py line 366: 티커, 종목명,
\* 매수상태, 1차매수선, 2차매수선, 3차매수선
required_columns == {"ticker", "name", "status", "buy1", "buy2", "buy3"}

\* a row the monitor does not have
NotLoaded == [status |-> "ABSENT", lines |-> <<>>]

\* load_summary_stocks_with_buy_lines with the columns asked for as written
load_summary_stocks_with_buy_lines_AsWritten(file) ==
    [t \in Tickers |->
        IF file.exists /\ file.summary[t] # NoRow
           /\ \A k \in 1..3 : file.summary[t].buy_next[k] # None
        THEN [status |-> file.summary[t].status,
              lines |-> file.summary[t].buy_next]
        ELSE NotLoaded]

\* load_summary_stocks_with_buy_lines (Real_Time_Monitor_S1.py lines
\* 347-385) on the signal file: no file, an empty sheet or a missing column
\* give an empty frame; rows with an empty buy line are dropped (line 378)
load_summary_stocks_with_buy_lines(file) ==
    [t \in Tickers |->
        IF ~file.exists THEN NotLoaded
        ELSE IF \A u \in Tickers : file.summary[u] = NoRow THEN NotLoaded
        ELSE IF ~(required_columns \subseteq WrittenColumns) THEN NotLoaded
        ELSE IF file.summary[t] = NoRow THEN NotLoaded
        ELSE IF \E k \in 1..3 : file.summary[t].buy_next[k] = None
        THEN NotLoaded
        ELSE [status |-> file.summary[t].status,
              lines |-> file.summary[t].buy_next]]

\* run_simplified_monitoring_cycle (lines 900-1006) after a daily run: the
\* rows are loaded and check_simplified_alert is called once for each with
\* its three lines (line 981); midx counts the calls
MonitorCycle ==
    /\ dpc = "idle"
    /\ mpc[1] = "idle"
    /\ LET df == load_summary_stocks_with_buy_lines(sigFile)
       IN  /\ df_rows' = [df_rows EXCEPT ![1] = df]
           /\ midx' = [midx EXCEPT ![1] =
                          Cardinality({t \in Tickers : df[t] # NotLoaded})]
    /\ mpc' = [mpc EXCEPT ![1] = "done"]
    /\ UNCHANGED <<sigFile, chart, dpc, didx, df_universe, df_summary, df_history,
                   results>>
    /\ UNCHANGED <<today, alertFile, summary, history, lastCall, sends, armed>>
    /\ UNCHANGED <<solverVars, tickVars, trackerVars, calendarVars>>

\* one daily run and the monitoring cycle that follows it
HandoffNext ==
    \/ DailyLoad
    \/ DailyAnalyze
    \/ DailyFinish
    \/ MonitorCycle

\* the stages of BuyStatus (lines 408-413), in the order of the strategy
StageOrder == <<"NONE", "BOUGHT_1", "BOUGHT_2", "BOUGHT_3", "SOLD">>
StageRank(s) == CHOOSE i \in 1..Len(StageOrder) : StageOrder[i] = s

\* a Summary row of stage s as read by row.get (lines 556-570): the tranches
\* up to the stage are dated, the average and the high-water mark are set
\* once a tranche is filled
StoredRow(t, s) ==
    LET n == IF s = "SOLD" THEN 1 ELSE StageRank(s) - 1
    IN  [NewRow(t) EXCEPT
            !.status = s,
            !.avg = IF n = 0 THEN None ELSE 1000,
            !.dates = [k \in 1..3 |-> IF k <= n THEN 1 ELSE None],
            !.max_high = IF n = 0 THEN None ELSE 1010,
            !.close = 1005,
            !.evalDay = 1]

\* signal files with a stored row of any stage for the first instrument
StoredFiles ==
    {NoSignalFile} \cup
    {[exists |-> TRUE,
      summary |-> [t \in Tickers |->
                     IF t = UniverseOrder[1] THEN SaveRow(StoredRow(t, s))
                     ELSE NoRow],
      history |-> <<>>] : s \in {StageOrder[i] : i \in 1..Len(StageOrder)}}

\* the charts of the day: those of the daily run and, for the first
\* instrument, days whose low is under the second or the third buy line and
\* whose high is 7% above the first
StageCharts(t) ==
    IF t = UniverseOrder[1]
    THEN ChartsOf(t) \cup {Candle(900, 1075, 1070), Candle(800, 1075, 1070)}
    ELSE ChartsOf(t)

\* one evaluation of a stored row
StageInit ==
    /\ sigFile \in StoredFiles
    /\ chart \in [Tickers -> UNION {StageCharts(t) : t \in Tickers}]
    /\ \A t \in Tickers : chart[t] \in StageCharts(t)
    /\ DailyIdle

\* the daily run on one day, from any stored stage
StageNext ==
    \/ DailyLoad
    \/ DailyAnalyze
    \/ DailyRaise
    \/ DailyFinish
    \/ DailyAbort

DailyNext ==
    \/ DailyLoad
    \/ DailyLoadFails
    \/ DailyAnalyze
    \/ DailyRaise
    \/ DailyFinish
    \/ DailyAbort
    \/ DayPasses

-----------------------------------------------------------------------------
(* The tick functions of Trading_Signal_System_S1.py and
   contact_price_calculator.py on one argument *)

\* floor_tick that lands one tick lower
floor_tick_TickBelow(n, den) ==
    LET delta == get_tick_unit(n, den) IN
    (n \div (den * delta)) * delta - delta

\* floor_tick(price), price = n/den: math.floor(price / delta) * delta
floor_tick(n, den) ==
    LET delta == get_tick_unit(n, den) IN
    (n \div (den * delta)) * delta

\* the arguments: a price tickArg / 24 (the x_star of line 141), that is a
\* 19-close sum tickArg; small ones and the ones around every bucket bound
TickInputs ==
    (0 .. SmallSum)
    \cup UNION {(24 * b - TickWindow) .. (24 * b + TickWindow) : b \in TickBounds}

NoTick == [op |-> "none", v |-> <<>>]

TickInit ==
    /\ tickArg \in TickInputs
    /\ tickOut = NoTick

TickOff ==
    /\ tickArg = 0
    /\ tickOut = NoTick

\* calculate_buy_line_1, _2, _3 on the sum tickArg (lines 496-498)
LadderEval ==
    /\ tickOut = NoTick
    /\ tickArg > 0
    /\ LET buy1 == calculate_buy_line_1(tickArg)
           buy2 == calculate_buy_line_2(buy1)
       IN  tickOut' = [op |-> "ladder",
                       v |-> <<buy1, buy2, calculate_buy_line_3(buy2)>>]
    /\ UNCHANGED tickArg
    /\ UNCHANGED nonTickVars

\* the two ceil_tick functions on the price tickArg / 24
CeilEval ==
    /\ tickOut = NoTick
    /\ tickOut' = [op |-> "ceil",
                   v |-> <<ceil_tick(tickArg, 24), signal_ceil_tick(tickArg, 24)>>]
    /\ UNCHANGED tickArg
    /\ UNCHANGED nonTickVars

\* floor_tick on the price tickArg / 24
FloorEval ==
    /\ tickOut = NoTick
    /\ tickOut' = [op |-> "floor", v |-> <<floor_tick(tickArg, 24)>>]
    /\ UNCHANGED tickArg
    /\ UNCHANGED nonTickVars

\* calculate_tick_unit with "price <= 2000" in the first test
calculate_tick_unit_InclusiveBound(n, den) ==
    IF n <= 2000 * den THEN 1
    ELSE IF n < 5000 * den THEN 5
    ELSE IF n < 20000 * den THEN 10
    ELSE IF n < 50000 * den THEN 50
    ELSE IF n < 200000 * den THEN 100
    ELSE IF n < 500000 * den THEN 500
    ELSE 1000

\* calculate_tick_unit of Real_Time_Monitor_S1.py (lines 232-255)
calculate_tick_unit(n, den) ==
    IF n < 2000 * den THEN 1
    ELSE IF n < 5000 * den THEN 5
    ELSE IF n < 20000 * den THEN 10
    ELSE IF n < 50000 * den THEN 50
    ELSE IF n < 200000 * den THEN 100
    ELSE IF n < 500000 * den THEN 500
    ELSE 1000

\* get_nearest_tick_price of Real_Time_Monitor_S1.py (lines 258-278): a
\* price on a tick is returned as it is
monitor_get_nearest_tick_price(n, den) ==
    LET tick_unit == calculate_tick_unit(n, den) IN
    IF n % (den * tick_unit) = 0
    THEN n \div den
    ELSE (n \div (den * tick_unit)) * tick_unit + tick_unit

\* the two get_nearest_tick_price functions on the price tickArg / 24
NearestEval ==
    /\ tickOut = NoTick
    /\ tickOut' = [op |-> "nearest",
                   v |-> <<get_nearest_tick_price(tickArg, 24),
                           monitor_get_nearest_tick_price(tickArg, 24)>>]
    /\ UNCHANGED tickArg
    /\ UNCHANGED nonTickVars

\* the closes tried against a buy ladder, in percent of buy1, and the stages
ClosePercents == {81, 95, 100, 103, 110, 111}
Stages == {"NONE", "BOUGHT_1", "BOUGHT_2", "BOUGHT_3", "SOLD"}

\* lines 611-627 and 652-657 on the ladder of the 19-close sum tickArg: the
\* classification of a stage, an average entry price and a close.  v is
\* <<stage, classification, close, buy1..3, sell1..3>>
AlertEval ==
    /\ tickOut = NoTick
    /\ tickArg > 0
    /\ LET buy1 == calculate_buy_line_1(tickArg)
           buy2 == calculate_buy_line_2(buy1)
           buy == <<buy1, buy2, calculate_buy_line_3(buy2)>>
       IN  \E buy_status \in Stages, q \in ClosePercents,
              avg_price \in {None, buy[1], buy[2], buy[3]} :
              LET close == (buy1 * q) \div 100
                  sell == IF buy_status \in HeldStatuses /\ Truthy(avg_price)
                          THEN [k \in 1..3 |-> SellLine(avg_price, k)]
                          ELSE NoTranche
                  alert == determine_alert_status(buy_status,
                               DistBuy(close, buy), DistSell(close, sell),
                               DEFAULT_ALERT_THRESHOLD)
              IN  /\ close > 0
                  /\ tickOut' = [op |-> "alert",
                                 v |-> <<buy_status, alert, close>> \o buy \o sell]
    /\ UNCHANGED tickArg
    /\ UNCHANGED nonTickVars

\* solve_contact_price (contact_price_calculator.py lines 33-59) as a
\* function; fuel counts the passes of the loop the model follows
RECURSIVE solve_loop(_, _, _)
solve_loop(s, cand, fuel) ==
    IF ContactAccepts(s, cand) THEN cand
    ELSE IF fuel = 0 THEN None
    ELSE solve_loop(s, cand + get_tick_size(cand, 1), fuel - 1)

solve_contact_price(s) == solve_loop(s, ceil_tick(s, 24), MaxIter)

\* the two solvers on the 19-close sum tickArg
SolverEval ==
    /\ tickOut = NoTick
    /\ tickArg > 0
    /\ tickOut' = [op |-> "solve",
                   v |-> <<predict_next_day_buy_price(tickArg),
                           solve_contact_price(tickArg)>>]
    /\ UNCHANGED tickArg
    /\ UNCHANGED nonTickVars

\* the three tick tables on the price tickArg / 24
TableEval ==
    /\ tickOut = NoTick
    /\ tickOut' = [op |-> "table",
                   v |-> <<get_tick_size(tickArg, 24), get_tick_unit(tickArg, 24),
                           calculate_tick_unit(tickArg, 24)>>]
    /\ UNCHANGED tickArg
    /\ UNCHANGED nonTickVars

TickNext ==
    \/ TableEval
    \/ SolverEval
    \/ LadderEval
    \/ CeilEval
    \/ FloorEval
    \/ NearestEval
    \/ AlertEval

-----------------------------------------------------------------------------
(* Specifications *)

-----------------------------------------------------------------------------
(* Daily_MarketCap_Tracker.py: the universe file *)

\* the largest day number of the tracker
MaxTrackDay == 3
\* the names the stock list gives a ticker
StockNames == {"n1", "n2"}

\* the rows filter_stocks hands to append_to_excel (lines 252, 601-605): one
\* row for each ticker and name of the day's list, at least one row
NewRowsInputs ==
    LET pairs == Tickers \X StockNames
    IN  {<<a>> : a \in pairs}
        \cup {<<x[1], x[2]>> : x \in {y \in pairs \X pairs : y[1] # y[2]}}

\* filter_stocks grouping by the ticker alone: one row per ticker
NewRowsInputs_ByTicker ==
    LET pairs == Tickers \X StockNames
    IN  {<<a>> : a \in pairs}
        \cup {<<x[1], x[2]>> : x \in {y \in pairs \X pairs : y[1][1] # y[2][1]}}

\* lines 456-463: the frame of the new rows; trading_date is today's date
df_new(new_rows, run_day) ==
    [i \in 1..Len(new_rows) |->
        [ticker |-> new_rows[i][1], name |-> new_rows[i][2],
         first |-> run_day, recent |-> run_day, count |-> 1]]

\* lines 477-492: the loop over the rows of known tickers, from row i on
RECURSIVE update_existing(_, _, _, _, _)
update_existing(df_old, upd, i, last_update, run_day) ==
    IF i > Len(upd) THEN df_old
    ELSE LET row == upd[i]
             next == [j \in 1..Len(df_old) |->
                        IF df_old[j].ticker = row.ticker
                        THEN [df_old[j] EXCEPT
                                 !.count = IF last_update # run_day THEN @ + 1 ELSE @,
                                 !.recent = row.recent]
                        ELSE df_old[j]]
         IN  update_existing(next, upd, i + 1, last_update, run_day)

\* the order of line 507: count descending, then recent descending
SortsBefore(a, b) ==
    \/ a.count > b.count
    \/ a.count = b.count /\ a.recent > b.recent

\* sort_values of line 507, rows of equal keys keep their order
RECURSIVE InsertSorted(_, _)
InsertSorted(sorted, r) ==
    IF sorted = <<>> THEN <<r>>
    ELSE IF SortsBefore(r, Head(sorted)) THEN <<r>> \o sorted
    ELSE <<Head(sorted)>> \o InsertSorted(Tail(sorted), r)

RECURSIVE sort_values(_)
sort_values(rows) ==
    IF rows = <<>> THEN <<>>
    ELSE InsertSorted(sort_values(SubSeq(rows, 1, Len(rows) - 1)), rows[Len(rows)])

\* append_to_excel (lines 437-513): the file it saves
append_to_excel(file, new_rows, run_day) ==
    LET last_update == file.h1
        df_old == file.rows
        new == df_new(new_rows, run_day)
        existing_tickers == {df_old[j].ticker : j \in 1..Len(df_old)}
        df_existing_update ==
            SelectSeq(new, LAMBDA r : r.ticker \in existing_tickers)
        df_really_new ==
            SelectSeq(new, LAMBDA r : r.ticker \notin existing_tickers)
        df_all == IF df_old # <<>>
                  THEN update_existing(df_old, df_existing_update, 1,
                                       last_update, run_day) \o df_really_new
                  ELSE new
    IN  [rows |-> sort_values(df_all), h1 |-> run_day]

\* no file yet: ensure_excel_exists writes the header only, H1 is empty
NoUniverse == [rows |-> <<>>, h1 |-> 0]

TrackerInit ==
    /\ uFile = NoUniverse
    /\ uDay = 1

TrackerOff ==
    /\ uFile = NoUniverse
    /\ uDay = 0

\* collect_today_data (lines 539-606) with a list that is not empty
TrackerRun ==
    /\ \E new_rows \in NewRowsInputs :
          uFile' = append_to_excel(uFile, new_rows, uDay)
    /\ UNCHANGED uDay
    /\ UNCHANGED nonTrackerVars

\* date.today() moves on
TrackerNextDay ==
    /\ uDay < MaxTrackDay
    /\ uDay' = uDay + 1
    /\ UNCHANGED uFile
    /\ UNCHANGED nonTrackerVars

TrackerNext ==
    \/ TrackerRun
    \/ TrackerNextDay

-----------------------------------------------------------------------------
(* trading_day_utils.py *)

\* day numbers: day d is the weekday d % 7, 0 a Monday
FirstStart == 8
LastStart == 16
\* the days that can be public holidays: the weekdays of the second week
HolidayCandidates == 7 .. 11
\* get_next_trading_day is followed for this many days
MaxNextDays == 12

\* is_weekend (lines 15-29): weekday() >= 5
is_weekend(check_date) == check_date % 7 >= 5

\* is_holiday (lines 32-47) under the holiday calendar H
is_holiday(check_date, H) == check_date \in H

\* is_trading_day (lines 50-71)
is_trading_day(check_date, H) ==
    IF is_weekend(check_date) THEN FALSE
    ELSE IF is_holiday(check_date, H) THEN FALSE
    ELSE TRUE

\* the loop of get_next_trading_day (lines 129-134)
RECURSIVE next_loop(_, _, _)
next_loop(next_date, H, fuel) ==
    LET d == next_date + 1
    IN  IF is_trading_day(d, H) THEN d
        ELSE IF fuel = 0 THEN None
        ELSE next_loop(d, H, fuel - 1)

get_next_trading_day(start_date, H) == next_loop(start_date, H, MaxNextDays)

\* the loop of get_previous_trading_day (lines 151-160)
RECURSIVE prev_loop(_, _, _)
prev_loop(start_date, prev_date, H) ==
    IF is_trading_day(prev_date, H) THEN prev_date
    ELSE IF start_date - (prev_date - 1) > 7 THEN start_date
    ELSE prev_loop(start_date, prev_date - 1, H)

\* get_previous_trading_day that gives up after 6 days
get_previous_trading_day_SixDays(start_date, H) ==
    IF \A d \in (start_date - 6)..start_date : ~is_trading_day(d, H)
    THEN start_date
    ELSE prev_loop(start_date, start_date, H)

get_previous_trading_day(start_date, H) == prev_loop(start_date, start_date, H)

NoCal == [op |-> "none", v |-> 0]

CalendarInit ==
    /\ calIn \in [start : FirstStart..LastStart, holidays : SUBSET HolidayCandidates]
    /\ calOut = NoCal

CalendarOff ==
    /\ calIn = [start |-> 0, holidays |-> {}]
    /\ calOut = NoCal

PreviousEval ==
    /\ calOut = NoCal
    /\ calOut' = [op |-> "previous",
                  v |-> get_previous_trading_day(calIn.start, calIn.holidays)]
    /\ UNCHANGED calIn
    /\ UNCHANGED nonCalendarVars

NextEval ==
    /\ calOut = NoCal
    /\ calOut' = [op |-> "next",
                  v |-> get_next_trading_day(calIn.start, calIn.holidays)]
    /\ UNCHANGED calIn
    /\ UNCHANGED nonCalendarVars

CalendarNext ==
    \/ PreviousEval
    \/ NextEval

-----------------------------------------------------------------------------
(* The specifications *)

SolverIdle ==
    /\ S19 = 0
    /\ p = 0
    /\ spc = "off"
    /\ iterations = 0

\* the monitor: one process running cycle after cycle
DailyOff ==
    /\ sigFile = NoSignalFile
    /\ chart = [t \in Tickers |-> NoData]
    /\ DailyIdle

InitAlert == AlertInit /\ SolverIdle /\ DailyOff /\ TickOff /\ TrackerOff /\ CalendarOff
SpecAlert == InitAlert /\ [][AlertNext]_vars

\* two monitor processes on the same alert-history file, within one day;
\* each runs one cycle (its history has not been loaded before)
MonLoadOnce(m) ==
    /\ history[m].date = 0
    /\ MonLoad(m)

AlertNext2 ==
    \/ MonLoadOnce(1)
    \/ MonCheck(1)
    \/ MonEnd(1)
    \/ MonLoadOnce(2)
    \/ MonCheck(2)
    \/ MonEnd(2)
SpecAlert2 == InitAlert /\ [][AlertNext2]_vars

\* the contact-price solver on one argument; the loop runs on (weak fairness:
\* a running Python loop takes its next step)
InitSolver == SolverInit /\ AlertInit /\ DailyOff /\ TickOff /\ TrackerOff /\ CalendarOff
SpecSolver == InitSolver /\ [][SolverNext]_vars /\ WF_vars(SolverNext)

\* the contact-price solver in float64 on a sum of 2^68 and more
InitFloat == FloatInit /\ AlertInit /\ DailyOff /\ TickOff /\ TrackerOff /\ CalendarOff
SpecFloat == InitFloat /\ [][FloatNext]_vars

\* the daily run, day after day
Init == DailyInit /\ AlertInit /\ SolverIdle /\ TickOff /\ TrackerOff /\ CalendarOff
Spec == Init /\ [][DailyNext]_vars

\* the daily run of one day and the monitor that reads its signal file
SpecHandoff == Init /\ [][HandoffNext]_vars

\* the daily run on a signal file holding a row of any stage
InitStage == StageInit /\ AlertInit /\ SolverIdle /\ TickOff /\ TrackerOff /\ CalendarOff
SpecStage == InitStage /\ [][StageNext]_vars

\* the market-cap tracker, run after run and day after day
InitTracker ==
    TrackerInit /\ AlertInit /\ SolverIdle /\ DailyOff /\ TickOff /\ CalendarOff
SpecTracker == InitTracker /\ [][TrackerNext]_vars

\* one trading-day function applied to one start date under one calendar
InitCalendar ==
    CalendarInit /\ AlertInit /\ SolverIdle /\ DailyOff /\ TickOff /\ TrackerOff
SpecCalendar == InitCalendar /\ [][CalendarNext]_vars

\* one tick function applied to one argument
InitTick == TickInit /\ AlertInit /\ SolverIdle /\ DailyOff /\ TrackerOff /\ CalendarOff
SpecTick == InitTick /\ [][TickNext]_vars

-----------------------------------------------------------------------------
(* Claims on the monitor's alert history (SpecAlert) *)

\* C1: within one epoch of an alert history every alert key of every
\* instrument is sent at most once; a later call that selects the same key
\* returns false and sends nothing.
C1_KeySentAtMostOnce ==
    \A tk \in Tickers \X AlertKeys : sends[tk] <= 1

\* a call selected a key that had been sent in this epoch, and returned false
C1_Witness ==
    /\ lastCall.key # NoKey
    /\ ~lastCall.sent
    /\ sends[<<lastCall.ticker, lastCall.key>>] = 1

\* C8: once READY_BUYk_1% has been sent in an epoch, READY_BUYk_3% and
\* READY_BUYk_5% are not sent for that instrument; once READY_BUYk_3% has been
\* sent, READY_BUYk_5% is not.
C8_CloserSuppressesFarther ==
    lastCall.sent =>
        LET t == lastCall.ticker
            k == lastCall.key[1]
        IN  /\ lastCall.key[2] = "3%" => sends[<<t, <<k, "1%">>>>] = 0
            /\ lastCall.key[2] = "5%" => /\ sends[<<t, <<k, "1%">>>>] = 0
                                         /\ sends[<<t, <<k, "3%">>>>] = 0

\* the low retreated into a farther band whose own alert never fired, after
\* a closer alert was sent, and the call sent nothing
C8_Witness ==
    /\ lastCall.key[2] \in {"3%", "5%"}
    /\ ~lastCall.sent
    /\ sends[<<lastCall.ticker, lastCall.key>>] = 0
    /\ sends[<<lastCall.ticker, <<lastCall.key[1], "1%">>>>] = 1

-----------------------------------------------------------------------------
(* Claims on the contact-price solver (SpecSolver) *)

\* C7: for every S19 > 0 solve_contact_price terminates, and the price it
\* returns passes verify_contact_price, also just under a bucket bound.
C7_SolveTerminatesVerified ==
    /\ <>(spc = "done")
    /\ [](spc = "done" => verify_contact_price(S19, p))

\* S19 / 24 lies just under a bucket bound and the bound itself is returned
C7_Witness ==
    /\ spc = "done"
    /\ \E b \in TickBounds : S19 < 24 * b /\ p = b
    /\ verify_contact_price(S19, p)

-----------------------------------------------------------------------------
(* Claims on the daily run (Spec) *)

\* the tranches a row records as filled, and the stage that goes with them
TranchesFilled(r) == Cardinality({k \in 1..3 : r.dates[k] # None /\ r.dates[k] # NaN})
StageOfTranches(n) == IF n = 0 THEN "NONE" ELSE <<"BOUGHT_1", "BOUGHT_2", "BOUGHT_3">>[n]
NextStage(s) ==
    IF s = "NONE" THEN "BOUGHT_1"
    ELSE IF s = "BOUGHT_1" THEN "BOUGHT_2"
    ELSE IF s = "BOUGHT_2" THEN "BOUGHT_3"
    ELSE s

RECURSIVE SumSeq(_)
SumSeq(s) == IF s = <<>> THEN 0 ELSE Head(s) + SumSeq(Tail(s))

\* the row of the loaded Summary sheet was written by an evaluation of the
\* same day, that is from the same chart
SavedToday(t) ==
    /\ df_summary.cols
    /\ df_summary.rows[t] # NoRow
    /\ sigFile.summary[t] # NoRow
    /\ sigFile.summary[t].evalDay = today

\* C2: a second evaluation of an instrument on the same inputs, from the
\* state the first one saved, yields the stage, the average entry price and
\* the tranche fill dates that the first one saved.
C2_SecondRunChangesNothing ==
    \A i \in 1..Len(results) :
        LET r == results[i]
            f == sigFile.summary[r.ticker]
        IN  SavedToday(r.ticker) =>
                /\ r.status = f.status
                /\ SaveCell(r.avg) = f.avg
                /\ SaveCells(r.dates) = f.dates

\* C3: one evaluation fills at most one tranche more than the row it
\* started from, and ends in the stage it started from, the next one, or SOLD.
C3_OneTranchePerEvaluation ==
    \A i \in 1..Len(results) :
        LET r == results[i]
            e == Existing(r.ticker, df_summary)
        IN  /\ TranchesFilled(r) <= TranchesFilled(e) + 1
            /\ r.status \in {e.status, NextStage(e.status), "SOLD"}

\* a row that started in NONE, saw a low at or below the third buy line and
\* ended in BOUGHT_1
C3_Witness ==
    \E i \in 1..Len(results) :
        LET r == results[i]
        IN  /\ Existing(r.ticker, df_summary).status = "NONE"
            /\ chart[r.ticker].low <= BuyLinesToday(chart[r.ticker])[3]
            /\ r.status = "BOUGHT_1"
            /\ TranchesFilled(r) = 1

\* C4: after the second or third tranche is filled in a run that started
\* from a saved row, the average entry price times the cumulative quantity
\* equals the sum of fill price times quantity over all tranches filled.
C4_AverageIsQuantityWeighted ==
    \A i \in 1..Len(results) :
        LET r == results[i]
            e == Existing(r.ticker, df_summary)
        IN  (/\ df_summary.cols
             /\ df_summary.rows[r.ticker] # NoRow
             /\ e.status \in {"BOUGHT_1", "BOUGHT_2"}
             /\ TranchesFilled(r) = TranchesFilled(e) + 1)
            => r.avg * (Len(r.fills) * TrancheQty) = SumSeq(r.fills) * TrancheQty

\* C5: a row held after the buy step with a positive average entry price ends
\* in SOLD exactly when the high is at or above sell3, or the highest high since
\* entry reached sell2 or sell1 and the close is within 1% of the average entry
\* price; otherwise its stage is the one after the buy step.
C5_ExitExactlyOnTheThreeChecks ==
    \A i \in 1..Len(results) :
        LET r == results[i]
            ch == chart[r.ticker]
            n == TranchesFilled(r)
            near == Abs(ch.close - r.avg) * 100 < r.avg
            due == \/ ch.high * 100 >= SellLine(r.avg, 3)
                   \/ r.gmax * 100 >= SellLine(r.avg, 2) /\ near
                   \/ r.gmax * 100 >= SellLine(r.avg, 1) /\ near
        IN  (n >= 1 /\ r.avg # None /\ r.avg # NaN /\ r.avg > 0)
            => r.status = IF due THEN "SOLD" ELSE StageOfTranches(n)

\* C6: an instrument held in Summary when a run starts is, when the run
\* ends, held in Summary or in a History row the run appended.
C6_HeldNeverDropped ==
    [][(dpc = "loop" /\ dpc' = "idle") =>
         \A t \in Tickers :
            (sigFile.summary[t] # NoRow /\ sigFile.summary[t].status \in HeldStatuses)
            => \/ /\ sigFile'.summary[t] # NoRow
                  /\ sigFile'.summary[t].status \in HeldStatuses
               \/ \E j \in (Len(sigFile.history) + 1)..Len(sigFile'.history) :
                     sigFile'.history[j].ticker = t]_vars

\* a cell without a value: None in the result record, NaN when read back
IsEmpty(v) == v = None \/ v = NaN

\* C11: from stage NONE, a low at or below today's buy1 fills the first
\* tranche: fill price buy1, quantity one unit, average entry price buy1 (the
\* exit check of the same evaluation may then end it in SOLD); a low above
\* buy1 leaves NONE with no fill date, price, quantity or average price.
C11_FirstTrancheFromNone ==
    \A i \in 1..Len(results) :
        LET r == results[i]
            ch == chart[r.ticker]
            buy1 == BuyLinesToday(ch)[1]
        IN  Existing(r.ticker, df_summary).status = "NONE" =>
              IF ch.low <= buy1
              THEN /\ r.status \in {"BOUGHT_1", "SOLD"}
                   /\ TranchesFilled(r) = 1
                   /\ r.prices[1] = buy1
                   /\ r.qtys[1] = TrancheQty
                   /\ r.avg = buy1
              ELSE /\ r.status = "NONE"
                   /\ TranchesFilled(r) = 0
                   /\ \A k \in 1..3 : IsEmpty(r.prices[k]) /\ IsEmpty(r.qtys[k])
                   /\ IsEmpty(r.avg)

\* a stored NONE row, a low exactly on buy1, the first tranche filled
C11_Witness ==
    \E i \in 1..Len(results) :
        LET r == results[i]
            ch == chart[r.ticker]
        IN  /\ df_summary.cols
            /\ df_summary.rows[r.ticker] # NoRow
            /\ df_summary.rows[r.ticker].status = "NONE"
            /\ ch.low = BuyLinesToday(ch)[1]
            /\ r.status = "BOUGHT_1"
            /\ r.avg = BuyLinesToday(ch)[1]

\* C12: every tranche the stored row records as filled is reported by the
\* next evaluation's result record with the date, the price and the quantity
\* of its fill.
C12_FillRecordsKept ==
    \A i \in 1..Len(results) :
        LET r == results[i]
            f == sigFile.summary[r.ticker]
        IN  (df_summary.cols /\ df_summary.rows[r.ticker] # NoRow /\ f # NoRow) =>
              \A k \in 1..3 :
                 ~IsEmpty(f.dates[k]) =>
                    /\ r.dates[k] = f.dates[k]
                    /\ r.prices[k] = r.fills[k]
                    /\ r.qtys[k] = TrancheQty

\* C13: a History record's exit reason names the sell tier whose check ended
\* the position: "+7%" only for the sell3 check, "+5% retouch" only for the
\* sell2 retouch check, "+3% retouch" only for the sell1 retouch check.
C13_ReasonNamesTriggeringTier ==
    \A j \in 1..Len(sigFile.history) :
        LET h == sigFile.history[j]
        IN  /\ h.reason = "+7%" => h.trigger = 3
            /\ h.reason = "+5% retouch" => h.trigger = 2
            /\ h.reason = "+3% retouch" => h.trigger = 1

\* C14: when a run saves, no row of the saved Summary is in stage SOLD, and
\* the saved History is the loaded one extended by exactly one record for
\* each row that reached SOLD in the run.
C14_SoldMovedExactlyOnce ==
    [][(/\ dpc = "loop"
        /\ dpc' = "idle"
        /\ didx > Len(df_universe)
        /\ SummaryFrame.cols) =>
         LET sold == {t \in Tickers : /\ SummaryFrame.rows[t] # NoRow
                                      /\ SummaryFrame.rows[t].status = "SOLD"}
             added == (Len(df_history) + 1)..Len(sigFile'.history)
         IN  /\ \A t \in Tickers : \/ sigFile'.summary[t] = NoRow
                                   \/ sigFile'.summary[t].status # "SOLD"
             /\ Len(sigFile'.history) = Len(df_history) + Cardinality(sold)
             /\ \A t \in sold :
                   Cardinality({j \in added : sigFile'.history[j].ticker = t}) = 1
             /\ \A j \in added : sigFile'.history[j].ticker \in sold]_vars

\* a fresh position of an instrument whose earlier position is in History
C14_Witness ==
    \E t \in Tickers :
        /\ sigFile.summary[t] # NoRow
        /\ sigFile.summary[t].status \in {"NONE", "BOUGHT_1"}
        /\ \E j \in 1..Len(sigFile.history) : sigFile.history[j].ticker = t

\* C15: every step leaves each record of the History sheet in place and
\* unchanged.
C15_HistoryAppendOnly ==
    [][\A j \in 1..Len(sigFile.history) :
          /\ j <= Len(sigFile'.history)
          /\ sigFile'.history[j] = sigFile.history[j]]_vars

\* C16: for an evaluated chart the today sum is the sum of the 19 closes
\* before today's (the 20-close sum less today's close), the next-session sum
\* is the sum of the 19 most recent closes (the 20-close sum less the oldest
\* close), and the two differ when today's close differs from that oldest close.
C16_TwoDistinctSums ==
    \A i \in 1..Len(results) :
        LET ch == chart[results[i].ticker]
        IN  /\ S19_today(ch) = ch.s20 - ch.close
            /\ S19_next(ch) = ch.s20 - ch.c20
            /\ ch.close # ch.c20 => S19_today(ch) # S19_next(ch)

-----------------------------------------------------------------------------
(* Claims on the tick functions (SpecTick) *)

\* C17: the buy ladder of every 19-close sum is strictly decreasing, and
\* each lower line is 0.9 times the line above rounded up to a tick.
C17_LadderStrictlyDecreasing ==
    tickOut.op = "ladder" =>
        LET buy == tickOut.v
        IN  /\ buy[1] > buy[2]
            /\ buy[2] > buy[3]
            /\ buy[2] = signal_ceil_tick(9 * buy[1], 10)
            /\ buy[3] = signal_ceil_tick(9 * buy[2], 10)

\* q is a multiple of the tick of q itself
OnOwnTick(q) == q % get_tick_unit(q, 1) = 0

\* C18: each of the two ceil_tick functions returns, for the price
\* tickArg / 24, a value at or above the price that is a multiple of its own
\* tick, and no smaller value at or above the price is one.
C18_CeilIsLeastTickAbove ==
    tickOut.op = "ceil" =>
        \A i \in 1..2 :
            LET r == tickOut.v[i]
            IN  /\ 24 * r >= tickArg
                /\ OnOwnTick(r)
                /\ r % get_tick_size(r, 1) = 0
                /\ \A q \in ((tickArg + 23) \div 24)..(r - 1) : ~OnOwnTick(q)

\* a price under a bucket bound rounded up onto the bound
C18_Witness ==
    /\ tickOut.op = "ceil"
    /\ tickOut.v[1] \in TickBounds
    /\ tickOut.v[2] \in TickBounds
    /\ tickArg < 24 * tickOut.v[2]

\* C19: floor_tick returns, for the price tickArg / 24, a value at or below
\* the price that is a multiple of its own tick, and no larger value at or
\* below the price is one.
C19_FloorIsGreatestTickBelow ==
    tickOut.op = "floor" =>
        LET r == tickOut.v[1]
        IN  /\ 24 * r <= tickArg
            /\ r >= 0
            /\ OnOwnTick(r)
            /\ \A q \in (r + 1)..(tickArg \div 24) : ~OnOwnTick(q)

\* a price between two ticks of a bucket with tick 5, rounded down
C19_Witness ==
    /\ tickOut.op = "floor"
    /\ tickArg > 24 * 2000
    /\ 24 * tickOut.v[1] < tickArg
    /\ get_tick_unit(tickOut.v[1], 1) = 5

-----------------------------------------------------------------------------
(* Claims on the daily run (Spec), continued *)

\* C20: each sell line of a result record is the average entry price times
\* (1 + g_k) rounded down to a tick (sell lines are kept in hundredths).
C20_SellLinesQuantizedDown ==
    \A i \in 1..Len(results) :
        LET r == results[i]
        IN  \A k \in 1..3 :
               ~IsEmpty(r.sells[k]) =>
                  r.sells[k] = 100 * floor_tick(r.avg * (100 + SELL_LEVELS[k]), 100)

\* C21: the sell lines of a result record with a positive average entry
\* price are strictly increasing, sell1 < sell2 < sell3.
C21_SellLadderIncreasing ==
    \A i \in 1..Len(results) :
        LET r == results[i]
        IN  (~IsEmpty(r.avg) /\ r.avg > 0 /\ ~IsEmpty(r.sells[1])) =>
               /\ r.sells[1] < r.sells[2]
               /\ r.sells[2] < r.sells[3]

\* a held row with its three sell lines
C21_Witness ==
    \E i \in 1..Len(results) :
        LET r == results[i]
        IN  /\ r.status = "BOUGHT_2"
            /\ r.avg > 0
            /\ r.sells[1] > 0
            /\ r.sells[3] > r.sells[1]

-----------------------------------------------------------------------------
(* Claims on the tick functions (SpecTick), continued *)

\* the price tickArg / 24 is a whole number on the tick of its bucket
ArgOnTick == tickArg % (24 * get_tick_unit(tickArg, 24)) = 0

\* C22: for a price exactly on a tick, the round-up of buy tiers 2 and 3
\* (get_nearest_tick_price of the signal system) returns the price itself,
\* and the round-up of the solver's first candidate (ceil_tick) returns the
\* next tick.
C22_ExactMatchPolicy ==
    (tickArg > 0 /\ ArgOnTick) =>
        /\ tickOut.op = "nearest" => tickOut.v[1] = tickArg \div 24
        /\ tickOut.op = "ceil" =>
              \A i \in 1..2 :
                 tickOut.v[i] = (tickArg \div 24) + get_tick_unit(tickArg, 24)

\* the fields of an evaluated classification
AlertOut == tickOut.op = "alert"
OutStage == tickOut.v[1]
OutAlert == tickOut.v[2]
OutClose == tickOut.v[3]
OutBuy(k) == tickOut.v[3 + k]
OutSell(k) == tickOut.v[6 + k]

\* the close is above the buy line b by at most pct percent of it
AboveWithin(close, b, pct) == close > b /\ (close - b) * 100 <= pct * b

\* the close (in units) is within pct percent of the sell line s (in
\* hundredths), on either side
NearSell(close, s, pct) ==
    s > 0 /\ Abs(close * 100 - s) * 100 <= pct * s

\* C23: in stage NONE the classification is READY_BUY1 exactly when the close
\* is above the next-session buy1 by more than 0 and at most 10 percent, and
\* WATCHING otherwise (distance 0, negative, or above the threshold).
C23_ReadyBuy1Band ==
    (AlertOut /\ OutStage = "NONE") =>
        IF AboveWithin(OutClose, OutBuy(1), DEFAULT_ALERT_THRESHOLD)
        THEN OutAlert = "READY_BUY1"
        ELSE OutAlert = "WATCHING"

C23_Witness ==
    /\ AlertOut
    /\ OutStage = "NONE"
    /\ OutClose = OutBuy(1)
    /\ OutAlert = "WATCHING"

\* a stage NONE evaluation exactly on the threshold
C23_WitnessThreshold ==
    /\ AlertOut
    /\ OutStage = "NONE"
    /\ (OutClose - OutBuy(1)) * 100 = DEFAULT_ALERT_THRESHOLD * OutBuy(1)
    /\ OutAlert = "READY_BUY1"

\* C24: in a held stage the sell lines are tested before the next buy tier:
\* BOUGHT_1 gives READY_SELL1 whenever the close is within 3 percent of sell1;
\* BOUGHT_2 gives READY_SELL2, else READY_SELL1, and READY_BUY3 only when
\* neither is near; BOUGHT_3 gives READY_SELL3, else READY_SELL2, else
\* READY_SELL1, else WAITING.
C24_SellProximityFirst ==
    AlertOut =>
        LET near(k) == NearSell(OutClose, OutSell(k), SELL_ALERT_THRESHOLD)
        IN  /\ (OutStage = "BOUGHT_1" /\ near(1)) => OutAlert = "READY_SELL1"
            /\ OutStage = "BOUGHT_2" =>
                  /\ near(2) => OutAlert = "READY_SELL2"
                  /\ (~near(2) /\ near(1)) => OutAlert = "READY_SELL1"
                  /\ OutAlert = "READY_BUY3" => (~near(1) /\ ~near(2))
            /\ OutStage = "BOUGHT_3" =>
                  OutAlert = IF near(3) THEN "READY_SELL3"
                             ELSE IF near(2) THEN "READY_SELL2"
                             ELSE IF near(1) THEN "READY_SELL1"
                             ELSE "WAITING"

\* BOUGHT_1 with the close both near sell1 and in the band above buy2
C24_Witness ==
    /\ AlertOut
    /\ OutStage = "BOUGHT_1"
    /\ NearSell(OutClose, OutSell(1), SELL_ALERT_THRESHOLD)
    /\ AboveWithin(OutClose, OutBuy(2), DEFAULT_ALERT_THRESHOLD)
    /\ OutAlert = "READY_SELL1"

\* the classifications a stage can give
AlertsOf(stage) ==
    IF stage = "SOLD" THEN {"COMPLETED"}
    ELSE IF stage = "NONE" THEN {"READY_BUY1", "WATCHING"}
    ELSE IF stage = "BOUGHT_1" THEN {"READY_SELL1", "READY_BUY2", "WAITING"}
    ELSE IF stage = "BOUGHT_2"
    THEN {"READY_SELL2", "READY_SELL1", "READY_BUY3", "WAITING"}
    ELSE {"READY_SELL3", "READY_SELL2", "READY_SELL1", "WAITING"}

\* C25: the classification of every result record is one its final stage
\* (the stage after the fills and the exit checks of the evaluation) can give;
\* SOLD always gives COMPLETED.
C25_AlertMatchesStage ==
    \A i \in 1..Len(results) : results[i].alert \in AlertsOf(results[i].status)

\* a record sold in this evaluation, classified COMPLETED
C25_Witness ==
    \E i \in 1..Len(results) :
        /\ results[i].status = "SOLD"
        /\ results[i].trigger # 0
        /\ results[i].alert = "COMPLETED"

\* the instrument's evaluation of the day returns a result record
Evaluable(t) == chart[t].len >= 20 /\ ~Raises(chart[t])

\* C26: when the evaluation of one instrument of a daily cycle raises, the
\* cycle still saves the result of every other instrument of the universe
\* whose evaluation succeeds: at the end of the cycle the row of each of them
\* in the signal file (Summary, or History for one sold) is of this day.
C26_ErrorDoesNotAbortBatch ==
    [][(/\ dpc = "loop"
        /\ dpc' = "idle"
        /\ \E i \in 1..Len(df_universe) : Raises(chart[df_universe[i]]))
       => \A i \in 1..Len(df_universe) :
             LET t == df_universe[i]
             IN  Evaluable(t) =>
                    \/ /\ sigFile'.summary[t] # NoRow
                       /\ sigFile'.summary[t].evalDay = today
                    \/ \E h \in 1..Len(sigFile'.history) :
                          /\ sigFile'.history[h].ticker = t
                          /\ sigFile'.history[h].exit_date = today]_vars

-----------------------------------------------------------------------------
(* Claims on two monitor processes (SpecAlert2) *)

\* both cycles are over
BothIdle == \A m \in MonProcs : mpc[m] = "idle"

\* C27: with two monitoring cycles interleaved on one alert-history file, no
\* alert key of an instrument is sent twice in the epoch, and when both
\* cycles are over every key either of them marked is marked in the file.
C27_NoLostUpdate ==
    /\ \A k \in Tickers \X AlertKeys : sends[k] < 2
    /\ (BothIdle /\ alertFile # NoFile) =>
          \A m \in MonProcs, t \in Tickers :
             history[m].date = alertFile.date =>
                history[m].alerts[t] \subseteq alertFile.alerts[t]

-----------------------------------------------------------------------------
(* Claims on the solver in float64 (SpecFloat) *)

\* the largest number of passes the claim allows before the solver gives up
IterationCap == 10

\* C28: the contact-price loop performs at most a fixed number of iterations
\* (IterationCap); it is never in its loop with more passes behind it.
C28_LoopIsCapped ==
    spc = "loop" => iterations <= IterationCap

-----------------------------------------------------------------------------
(* Claims on the two solvers as functions (SpecTick) *)

\* C29: for every 19-close sum S19 > 0 the daily system's
\* predict_next_day_buy_price and the stand-alone solve_contact_price return
\* the same price.
C29_SolversAgree ==
    tickOut.op = "solve" =>
        /\ tickOut.v[1] # None
        /\ tickOut.v[1] = tickOut.v[2]

\* a sum whose x_star is a whole number on its tick: both return x_star
C29_Witness ==
    /\ tickOut.op = "solve"
    /\ tickArg % 24 = 0
    /\ ArgOnTick
    /\ tickOut.v[1] = tickArg \div 24
    /\ tickOut.v[2] = tickArg \div 24

-----------------------------------------------------------------------------
(* Claims on the signal file as the monitor reads it (SpecHandoff) *)

\* C30: the monitoring cycle that follows a daily run calls
\* check_simplified_alert, with the three published next-session buy lines,
\* for every instrument the daily run wrote to Summary with all three lines
\* defined.
C30_MonitorChecksPublishedLines ==
    [][(mpc[1] = "idle" /\ mpc'[1] = "done") =>
          \A t \in Tickers :
             (/\ sigFile.exists
              /\ sigFile.summary[t] # NoRow
              /\ \A k \in 1..3 : ~IsEmpty(sigFile.summary[t].buy_next[k]))
             => /\ df_rows'[1][t] # NotLoaded
                /\ df_rows'[1][t].lines = sigFile.summary[t].buy_next]_vars

-----------------------------------------------------------------------------
(* Claims on the tick table (SpecTick) *)

\* the buckets of the table: <<lower bound, tick>>, the upper bound of a
\* bucket is the lower bound of the next; the last bucket has no upper bound
TickSchedule ==
    <<<<0, 1>>, <<2000, 5>>, <<5000, 10>>, <<20000, 50>>, <<50000, 100>>,
      <<200000, 500>>, <<500000, 1000>>>>

\* the price n / 24 is in bucket i
InBucket(n, i) ==
    /\ TickSchedule[i][1] * 24 <= n
    /\ i < Len(TickSchedule) => n < TickSchedule[i + 1][1] * 24

\* C31: the three copies of the tick table return the same tick for a price;
\* the price is in exactly one bucket of the schedule, whose tick they return;
\* the bounds of the schedule increase strictly and each is a multiple of the
\* tick below it and of the tick above it.
C31_TickTablesAgree ==
    tickOut.op = "table" =>
        /\ tickOut.v[1] = tickOut.v[2]
        /\ tickOut.v[2] = tickOut.v[3]
        /\ Cardinality({i \in 1..Len(TickSchedule) : InBucket(tickArg, i)}) = 1
        /\ \A i \in 1..Len(TickSchedule) :
              InBucket(tickArg, i) => tickOut.v[1] = TickSchedule[i][2]
        /\ \A i \in 2..Len(TickSchedule) :
              LET b == TickSchedule[i][1]
              IN  /\ TickSchedule[i - 1][1] < b
                  /\ tickArg = 24 * b =>
                        /\ b % tickOut.v[1] = 0
                        /\ b % get_tick_size(tickArg - 1, 24) = 0
                        /\ get_tick_size(tickArg - 1, 24) = TickSchedule[i - 1][2]

\* a price exactly on a bucket bound, in the bucket above it
C31_Witness ==
    /\ tickOut.op = "table"
    /\ tickArg = 24 * 2000
    /\ tickOut.v = <<5, 5, 5>>

-----------------------------------------------------------------------------
(* Claims on the universe file (SpecTracker) *)

\* the rows of a ticker in a frame
RowsOf(rows, t) == {j \in 1..Len(rows) : rows[j].ticker = t}

\* C32: each ticker of the universe file has one row; a run leaves the
\* first-seen date of every ticker already in the file as it was, leaves
\* its count as it was when the file was already updated on this day, and
\* raises it by at most 1 otherwise.
C32_OneRowOneCountPerDay ==
    [][uFile' # uFile =>
         /\ \A t \in Tickers : Cardinality(RowsOf(uFile'.rows, t)) <= 1
         /\ \A j \in 1..Len(uFile.rows) :
               LET r == uFile.rows[j]
               IN  \E k \in RowsOf(uFile'.rows, r.ticker) :
                      LET q == uFile'.rows[k]
                      IN  /\ q.first = r.first
                          /\ q.count >= r.count
                          /\ q.count <= r.count + 1
                          /\ uFile.h1 = uDay => q.count = r.count]_vars

-----------------------------------------------------------------------------
(* Claims on the trading-day functions (SpecCalendar) *)

\* C33: get_previous_trading_day returns a trading day that is not after the
\* start date, the start date itself when it is a trading day;
\* get_next_trading_day returns a trading day after the start date.
C33_TradingDayReturned ==
    /\ calOut.op = "previous" =>
          /\ is_trading_day(calOut.v, calIn.holidays)
          /\ calOut.v <= calIn.start
          /\ is_trading_day(calIn.start, calIn.holidays) => calOut.v = calIn.start
    /\ calOut.op = "next" =>
          /\ calOut.v # None
          /\ is_trading_day(calOut.v, calIn.holidays)
          /\ calOut.v > calIn.start

-----------------------------------------------------------------------------
(* Claims on the stage order (SpecStage) *)

\* the row analyze_stock appended in this step and the locals it started from
Appended == Len(results') = Len(results) + 1
LastResult == results'[Len(results')]
LoadedLocals == Existing(LastResult.ticker, df_summary)

\* C34: one analyze_stock evaluation never lowers the stage in the order
\* NONE < BOUGHT_1 < BOUGHT_2 < BOUGHT_3 < SOLD, and a row loaded as SOLD is
\* returned as SOLD with no tranche filled and no exit branch taken.
C34_StageNeverLowered ==
    [][Appended =>
         /\ StageRank(LastResult.status) >= StageRank(LoadedLocals.status)
         /\ LoadedLocals.status = "SOLD" =>
               /\ LastResult.status = "SOLD"
               /\ LastResult.fills = LoadedLocals.fills
               /\ LastResult.dates = LoadedLocals.dates
               /\ LastResult.avg = LoadedLocals.avg
               /\ LastResult.max_high = LoadedLocals.max_high
               /\ LastResult.trigger = LoadedLocals.trigger
               /\ LastResult.sells = NoTranche]_vars

\* a row loaded as SOLD has been evaluated on a day whose low is at the
\* first buy line and whose high is 7% above the stored average
C34_Witness ==
    /\ dpc = "loop"
    /\ df_summary.cols
    /\ df_summary.rows["005930"].status = "SOLD"
    /\ chart["005930"] = Candle(990, 1075, 1070)
    /\ Len(results) >= 1
    /\ results[1].ticker = "005930"
    /\ results[1].status = "SOLD"

-----------------------------------------------------------------------------
(* Claims on the first candidate of the solver (SpecSolver, SpecFloat) *)

-----------------------------------------------------------------------------
(* Claims on the order and the frame of the alerts (SpecAlert) *)

\* the thresholds closer to the line than th, and th itself
NotFarther(th) ==
    IF th = "5%" THEN {"5%", "3%", "1%"}
    ELSE IF th = "3%" THEN {"3%", "1%"}
    ELSE {"1%"}

\* C36: within one epoch, for one instrument and one tier, the READY_BUYk
\* alerts are sent in the order 5%, 3%, 1%, each at most once: when one is
\* sent, neither it nor a closer one was sent before in the epoch; with the
\* BUYk_EXECUTED alert that is at most four alerts per tier.
C36_ProximityAlertsEscalate ==
    /\ \A t \in Tickers, key \in AlertKeys : sends[<<t, key>>] <= 1
    /\ (lastCall.sent /\ lastCall.key[2] \in Thresholds) =>
          \A th \in NotFarther(lastCall.key[2]) \ {lastCall.key[2]} :
             sends[<<lastCall.ticker, <<lastCall.key[1], th>>>>] = 0

\* the 1% alert of a tier has just been sent, after the 5% and the 3% alert
\* of that tier in the same epoch
C36_Witness ==
    /\ lastCall.sent
    /\ lastCall.key[2] = "1%"
    /\ sends[<<lastCall.ticker, <<lastCall.key[1], "3%">>>>] = 1
    /\ sends[<<lastCall.ticker, <<lastCall.key[1], "5%">>>>] = 1

\* a step that is one call of check_simplified_alert by monitor m
CheckCalled(m) ==
    /\ midx'[m] = midx[m] + 1
    /\ lastCall' # NoCall
    /\ lastCall' # lastCall

\* C37: check_simplified_alert changes the alert history only when it sends.
\* A call that returns false leaves the history in memory and the file as
\* they were; a call that returns true sets exactly one key of the given
\* instrument from unset to fired, leaves the keys of every other instrument
\* alone and saves that history.
C37_HistoryChangesOnlyOnSend ==
    [][\A m \in MonProcs :
         CheckCalled(m) =>
            IF lastCall'.sent
            THEN /\ lastCall'.key \notin history[m].alerts[lastCall'.ticker]
                 /\ history'[m].alerts[lastCall'.ticker] =
                       history[m].alerts[lastCall'.ticker] \cup {lastCall'.key}
                 /\ \A t \in Tickers \ {lastCall'.ticker} :
                       history'[m].alerts[t] = history[m].alerts[t]
                 /\ history'[m].date = history[m].date
                 /\ alertFile' = history'[m]
            ELSE /\ history' = history
                 /\ alertFile' = alertFile]_vars

\* an alert has just been sent for one instrument, for the first time in the
\* epoch, while the history holds fired keys of the other instrument
C37_Witness ==
    /\ lastCall.sent
    /\ \E t \in Tickers \ {lastCall.ticker} : history[1].alerts[t] # {}
    /\ sends[<<lastCall.ticker, lastCall.key>>] = 1

\* C38: once BUYk_EXECUTED has fired for an instrument in an epoch, no
\* READY_BUYk_1%, READY_BUYk_3% or READY_BUYk_5% alert is sent for that
\* instrument in the rest of the epoch, whatever the later lows are.
C38_ExecutedSuppressesProximity ==
    (lastCall.sent /\ lastCall.key[2] \in Thresholds) =>
        sends[<<lastCall.ticker, <<lastCall.key[1], "EXECUTED">>>>] = 0

\* the chart of the evaluation of this step, and whether it filled a tranche
EvalChart == chart[LastResult.ticker]
FilledNow == LastResult.fills # LoadedLocals.fills

=============================================================================
